---- MODULE Spec2Model ----
(***************************************************************************)
(* Model of the UKF class of src/src/ukf.cpp: the constructor, the         *)
(* measurement entry point ProcessMeasurement and the three steps it       *)
(* composes (Prediction, UpdateLidar, UpdateRadar).                        *)
(*                                                                         *)
(* Numbers.  Positions are fixed-point integers, one unit = 1e-4 m, so the *)
(* literals 0.001 and 0.01 of UpdateRadar are 10 and 100.  Timestamps are  *)
(* integer microseconds.  Quotients of integers (delta_t, the weights) are *)
(* exact rationals <<numerator, denominator>> in lowest terms.  Bearings   *)
(* of radar measurements are counted in quarter turns, where sine and      *)
(* cosine are exact.                                                       *)
(*                                                                         *)
(* The results of the dense linear algebra (Cholesky factor, inverse,      *)
(* products of real matrices) have no finite exact representation; a       *)
(* field holding such a result holds the token Computed, and the position  *)
(* rows of the predicted sigma points are drawn from a bounded family.     *)
(***************************************************************************)
EXTENDS Integers, Sequences, FiniteSets, TLC

VARIABLES
    is_initialized_,  \* ukf.cpp:15
    use_laser_,       \* ukf.cpp:17
    use_radar_,       \* ukf.cpp:20
    x_,               \* ukf.cpp:23   state vector
    P_,               \* ukf.cpp:26   state covariance
    time_us_,         \* ukf.cpp:55
    n_x_,             \* ukf.cpp:58
    n_aug_,           \* ukf.cpp:61
    lambda_,          \* ukf.cpp:143
    weights_,         \* ukf.cpp:64
    Xsig_pred_,       \* ukf.cpp:67   rows 0 and 1 (px, py) of every column
    NIS_laser_,       \* ukf.cpp:70
    NIS_radar_,       \* ukf.cpp:71
    aborted,          \* the process was ended by a failed Eigen size assertion
    \* what the last ProcessMeasurement call did
    ops,              \* the steps it entered, in order
    delta_t,          \* the argument it passed to Prediction
    Xsig_predicted,   \* Xsig_pred_ as its Prediction left it
    weights_predicted,\* weights_ as its Prediction left it
    Zsig_rho2,        \* per column, the square of Zsig_pred(0,i) of UpdateRadar
    xdiff_pts,        \* per column, the point UpdateRadar read at line 291
    \* the caller
    calls,            \* number of ProcessMeasurement calls made
    meas,             \* the measurement of the last call
    prev_timestamp    \* the timestamp of the measurement of the call before it

vars == <<is_initialized_, use_laser_, use_radar_, x_, P_, time_us_, n_x_,
          n_aug_, lambda_, weights_, Xsig_pred_, NIS_laser_, NIS_radar_,
          aborted, ops, delta_t, Xsig_predicted, weights_predicted,
          Zsig_rho2, xdiff_pts, calls, meas, prev_timestamp>>

----------------------------------------------------------------------------
(* Bounds *)

MaxCalls == 3
MaxTime == 1
MaxNAug == 7

(* Program constants *)

ClampThreshold == 10
ClampValue == 100
MicrosPerSecond == 1000000
StateSize == 5
AugSize == 7

----------------------------------------------------------------------------
(* Values *)

Uninit == "uninitialized"
Computed == "computed"
NoMeas == [sensor_type_ |-> "NONE", raw_measurements_ |-> <<>>, timestamp_ |-> 0]

Abs(a) == IF a < 0 THEN -a ELSE a

RECURSIVE GCD(_, _)
GCD(a, b) == IF b = 0 THEN a ELSE GCD(b, a % b)

Frac(a, b) ==
    LET g == GCD(Abs(a), Abs(b))
        s == IF b < 0 THEN -1 ELSE 1
    IN <<(s * a) \div g, (s * b) \div g>>

RatAdd(p, q) == Frac(p[1] * q[2] + q[1] * p[2], p[2] * q[2])

\* cos and sin of k quarter turns
Cos4(k) == CASE k % 4 = 0 -> 1 [] k % 4 = 1 -> 0 [] k % 4 = 2 -> -1 [] OTHER -> 0
Sin4(k) == CASE k % 4 = 0 -> 0 [] k % 4 = 1 -> 1 [] k % 4 = 2 -> 0 [] OTHER -> -1

P_prior == << <<1, 0, 0, 0, 0>>,
              <<0, 1, 0, 0, 0>>,
              <<0, 0, 1, 0, 0>>,
              <<0, 0, 0, 100, 0>>,
              <<0, 0, 0, 0, 100>> >>

----------------------------------------------------------------------------
(* Inputs *)

LaserPx == {0, 50000}
LaserPy == {30000}
RadarRho == {20000}
RadarPhi == {0, 1}
RadarRhoDot == {10000}
TimeStamps == 0..MaxTime

Measurements ==
    [sensor_type_ : {"LASER"},
     raw_measurements_ : {<<px, py>> : px \in LaserPx, py \in LaserPy},
     timestamp_ : TimeStamps]
    \cup
    [sensor_type_ : {"RADAR"},
     raw_measurements_ : {<<rho, phi, rd>> : rho \in RadarRho, phi \in RadarPhi, rd \in RadarRhoDot},
     timestamp_ : TimeStamps]

\* The position of sigma column 0 and the position block of the scaled
\* square root (a00, a10, a11) that Prediction lines 158-193 arrive at.
SigCentres == {<<0, 0>>, <<-9, 9>>, <<10, 0>>, <<5000, 3000>>}
SigRoots == {<<0, 0, 0>>, <<20, 5, 20>>}

----------------------------------------------------------------------------
(* The estimator object as one record, so that the steps compose; what is    *)
(* local to one call (ops, Zsig_rho2, xdiff_pts) starts afresh.              *)

State ==
    [is_initialized_ |-> is_initialized_, use_laser_ |-> use_laser_,
     use_radar_ |-> use_radar_, x_ |-> x_, P_ |-> P_, time_us_ |-> time_us_,
     n_x_ |-> n_x_, n_aug_ |-> n_aug_, lambda_ |-> lambda_,
     weights_ |-> weights_, Xsig_pred_ |-> Xsig_pred_,
     NIS_laser_ |-> NIS_laser_, NIS_radar_ |-> NIS_radar_,
     aborted |-> aborted, ops |-> <<>>, delta_t |-> delta_t,
     Xsig_predicted |-> Xsig_predicted, weights_predicted |-> weights_predicted,
     Zsig_rho2 |-> Uninit, xdiff_pts |-> Uninit]

Columns(n_aug) == 0..(2 * n_aug)

----------------------------------------------------------------------------
(* UKF::UKF *)

Constructed(n_aug) ==
    /\ is_initialized_ = FALSE
    /\ use_laser_ = TRUE
    /\ use_radar_ = TRUE
    /\ x_ = Uninit
    /\ P_ = P_prior
    /\ time_us_ = 0
    /\ n_x_ = StateSize
    /\ n_aug_ = n_aug
    /\ lambda_ = Uninit
    /\ weights_ = Uninit
    /\ Xsig_pred_ = Uninit
    /\ NIS_laser_ = 0
    /\ NIS_radar_ = 0
    /\ aborted = FALSE
    /\ ops = <<>>
    /\ delta_t = Uninit
    /\ Xsig_predicted = Uninit
    /\ weights_predicted = Uninit
    /\ Zsig_rho2 = Uninit
    /\ xdiff_pts = Uninit
    /\ calls = 0
    /\ meas = NoMeas
    /\ prev_timestamp = 0

----------------------------------------------------------------------------
(* UKF::ProcessMeasurement, first measurement *)

BootstrapNoInit(s, m) ==
    LET raw == m.raw_measurements_
        s1 == IF m.sensor_type_ = "RADAR"
              THEN [s EXCEPT !.x_ = <<raw[1] * Cos4(raw[2]), raw[1] * Sin4(raw[2]), raw[3], raw[2], 0>>,
                             !.use_radar_ = FALSE]
              ELSE IF m.sensor_type_ = "LASER"
              THEN [s EXCEPT !.x_ = <<raw[1], raw[2], 0, 0, 0>>,
                             !.use_laser_ = FALSE]
              ELSE s
    IN [s1 EXCEPT !.time_us_ = m.timestamp_,
                  !.ops = Append(s.ops, "Bootstrap")]

BootstrapSwapped(s, m) ==
    LET raw == m.raw_measurements_
        s1 == IF m.sensor_type_ = "RADAR"
              THEN [s EXCEPT !.x_ = <<raw[1] * Cos4(raw[2]), raw[1] * Sin4(raw[2]), raw[3], raw[2], 0>>,
                             !.use_radar_ = FALSE]
              ELSE IF m.sensor_type_ = "LASER"
              THEN [s EXCEPT !.x_ = <<raw[2], raw[1], 0, 0, 0>>,
                             !.use_laser_ = FALSE]
              ELSE s
    IN [s1 EXCEPT !.time_us_ = m.timestamp_,
                  !.is_initialized_ = TRUE,
                  !.ops = Append(s.ops, "Bootstrap")]

Bootstrap(s, m) ==
    LET raw == m.raw_measurements_
        s1 == IF m.sensor_type_ = "RADAR"
              THEN [s EXCEPT !.x_ = <<raw[1] * Cos4(raw[2]), raw[1] * Sin4(raw[2]), raw[3], raw[2], 0>>,
                             !.use_radar_ = FALSE]
              ELSE IF m.sensor_type_ = "LASER"
              THEN [s EXCEPT !.x_ = <<raw[1], raw[2], 0, 0, 0>>,
                             !.use_laser_ = FALSE]
              ELSE s
    IN [s1 EXCEPT !.time_us_ = m.timestamp_,
                  !.is_initialized_ = TRUE,
                  !.ops = Append(s.ops, "Bootstrap")]

----------------------------------------------------------------------------
(* UKF::Prediction *)

\* Rows 0 and 1 of the predicted sigma points.  Column 0 comes from the mean,
\* column i+1 from mean + sqrt(lambda+n_aug)*A.col(i) and column i+1+n_aug
\* from mean - sqrt(lambda+n_aug)*A.col(i); A is lower triangular, so only
\* its columns 0 and 1 reach the position rows.
RootColumn(root, i) ==
    IF i = 0 THEN <<root[1], root[2]>>
    ELSE IF i = 1 THEN <<0, root[3]>>
    ELSE <<0, 0>>

SigmaPositions(n_aug, centre, root) ==
    [c \in Columns(n_aug) |->
        IF c = 0 THEN centre
        ELSE IF c <= n_aug
        THEN <<centre[1] + RootColumn(root, c - 1)[1], centre[2] + RootColumn(root, c - 1)[2]>>
        ELSE <<centre[1] - RootColumn(root, c - 1 - n_aug)[1], centre[2] - RootColumn(root, c - 1 - n_aug)[2]>>]

Lambda(n_aug) == 3 - n_aug

WeightsNoHalf(lambda, n_aug) ==
    [i \in Columns(n_aug) |->
        IF i = 0 THEN Frac(lambda, lambda + n_aug)
        ELSE Frac(1, lambda + n_aug)]

Weights(lambda, n_aug) ==
    [i \in Columns(n_aug) |->
        IF i = 0 THEN Frac(lambda, lambda + n_aug)
        ELSE Frac(1, 2 * (lambda + n_aug))]

Prediction(s, dt, centre, root) ==
    LET lambda == Lambda(s.n_aug_)
        Xsig == SigmaPositions(s.n_aug_, centre, root)
        w == Weights(lambda, s.n_aug_)
    IN [s EXCEPT !.lambda_ = lambda,
                 !.Xsig_pred_ = Xsig,
                 !.weights_ = w,
                 !.x_ = Computed,
                 !.P_ = Computed,
                 !.delta_t = dt,
                 !.Xsig_predicted = Xsig,
                 !.weights_predicted = w,
                 !.ops = Append(s.ops, "Prediction")]

----------------------------------------------------------------------------
(* UKF::UpdateLidar *)

\* raw_measurements_ - H_*x_ at line 226 subtracts a vector of size 2: with a
\* measurement of another size Eigen's size assertion ends the process, and
\* a build without assertions goes on with indeterminate values.  The result
\* lists the states the call can leave.
UpdateLidar(s, m) ==
    LET entered == [s EXCEPT !.ops = Append(s.ops, "UpdateLidar")]
        done == [entered EXCEPT !.x_ = Computed,
                                !.P_ = Computed,
                                !.NIS_laser_ = Computed]
    IN IF Len(m.raw_measurements_) # 2
       THEN <<[entered EXCEPT !.aborted = TRUE], done>>
       ELSE <<done>>

----------------------------------------------------------------------------
(* UKF::UpdateRadar *)

NearZero(p) == Abs(p[1]) < ClampThreshold /\ Abs(p[2]) < ClampThreshold

ClampNever(p) == p

Clamp(p) == IF NearZero(p) THEN <<ClampValue, ClampValue>> ELSE p

\* The loop of lines 256-264 writes the clamped position back into
\* Xsig_pred_; lines 291 and 303 come after it.  Line 303 subtracts a vector
\* of size 3 from raw_measurements_, with the outcomes described at
\* UpdateLidar.
UpdateRadar(s, m) ==
    LET Xsig == [i \in DOMAIN s.Xsig_pred_ |-> Clamp(s.Xsig_pred_[i])]
        rho2 == [i \in DOMAIN Xsig |-> Xsig[i][1] * Xsig[i][1] + Xsig[i][2] * Xsig[i][2]]
        looped == [s EXCEPT !.ops = Append(s.ops, "UpdateRadar"),
                            !.Xsig_pred_ = Xsig,
                            !.Zsig_rho2 = rho2,
                            !.xdiff_pts = Xsig]
        done == [looped EXCEPT !.x_ = Computed,
                               !.P_ = Computed,
                               !.NIS_radar_ = Computed]
    IN IF Len(m.raw_measurements_) # 3
       THEN <<[looped EXCEPT !.aborted = TRUE], done>>
       ELSE <<done>>

----------------------------------------------------------------------------
(* UKF::ProcessMeasurement, later measurements *)

ElapsedTimeReversed(s, m) == Frac(s.time_us_ - m.timestamp_, MicrosPerSecond)

ElapsedTime(s, m) == Frac(m.timestamp_ - s.time_us_, MicrosPerSecond)

AfterLidar(u) == IF u.aborted THEN u ELSE [u EXCEPT !.use_laser_ = FALSE, !.use_radar_ = TRUE]

AfterRadar(u) == IF u.aborted THEN u ELSE [u EXCEPT !.use_radar_ = FALSE, !.use_laser_ = TRUE]

RECURSIVE Flatten(_)
Flatten(ss) == IF ss = <<>> THEN <<>> ELSE Head(ss) \o Flatten(Tail(ss))

MeasurementUpdateNoReturn(s, m) ==
    LET ls == IF s.use_laser_
              THEN LET us == UpdateLidar(s, m) IN [k \in DOMAIN us |-> AfterLidar(us[k])]
              ELSE <<s>>
    IN Flatten([j \in DOMAIN ls |->
           IF ls[j].use_radar_ /\ ~ls[j].aborted
           THEN LET us == UpdateRadar(ls[j], m) IN [k \in DOMAIN us |-> AfterRadar(us[k])]
           ELSE <<ls[j]>>])

MeasurementUpdateNoToggle(s, m) ==
    IF s.use_laser_
    THEN LET us == UpdateLidar(s, m)
         IN [k \in DOMAIN us |-> IF us[k].aborted THEN us[k] ELSE [us[k] EXCEPT !.use_laser_ = FALSE]]
    ELSE IF s.use_radar_
    THEN LET us == UpdateRadar(s, m)
         IN [k \in DOMAIN us |-> IF us[k].aborted THEN us[k] ELSE [us[k] EXCEPT !.use_radar_ = FALSE]]
    ELSE <<s>>

MeasurementUpdate(s, m) ==
    IF s.use_laser_
    THEN LET us == UpdateLidar(s, m) IN [k \in DOMAIN us |-> AfterLidar(us[k])]
    ELSE IF s.use_radar_
    THEN LET us == UpdateRadar(s, m) IN [k \in DOMAIN us |-> AfterRadar(us[k])]
    ELSE <<s>>

\* The states one call can leave the estimator in.
ProcessMeasurementOp(s, m, centre, root) ==
    IF ~s.is_initialized_
    THEN <<Bootstrap(s, m)>>
    ELSE LET dt == ElapsedTime(s, m)
             timed == [s EXCEPT !.time_us_ = m.timestamp_]
             predicted == Prediction(timed, dt, centre, root)
         IN MeasurementUpdate(predicted, m)

ProcessMeasurement(m, centre, root) ==
    /\ ~aborted
    /\ calls < MaxCalls
    /\ \E ts \in {ProcessMeasurementOp(State, m, centre, root)} :
       \E k \in DOMAIN ts :
          LET t == ts[k] IN
          /\ is_initialized_' = t.is_initialized_
          /\ use_laser_' = t.use_laser_
          /\ use_radar_' = t.use_radar_
          /\ x_' = t.x_
          /\ P_' = t.P_
          /\ time_us_' = t.time_us_
          /\ n_x_' = t.n_x_
          /\ n_aug_' = t.n_aug_
          /\ lambda_' = t.lambda_
          /\ weights_' = t.weights_
          /\ Xsig_pred_' = t.Xsig_pred_
          /\ NIS_laser_' = t.NIS_laser_
          /\ NIS_radar_' = t.NIS_radar_
          /\ aborted' = t.aborted
          /\ ops' = t.ops
          /\ delta_t' = t.delta_t
          /\ Xsig_predicted' = t.Xsig_predicted
          /\ weights_predicted' = t.weights_predicted
          /\ Zsig_rho2' = t.Zsig_rho2
          /\ xdiff_pts' = t.xdiff_pts
    /\ calls' = calls + 1
    /\ meas' = m
    /\ prev_timestamp' = meas.timestamp_

----------------------------------------------------------------------------
(* Specifications *)

Init == Constructed(AugSize)

InitAnyNAug == \E n \in 1..MaxNAug : Constructed(n)

Next ==
    \E m \in Measurements, centre \in SigCentres, root \in SigRoots :
        ProcessMeasurement(m, centre, root)

Spec == Init /\ [][Next]_vars

SpecAnyNAug == InitAnyNAug /\ [][Next]_vars

----------------------------------------------------------------------------
(* Properties *)

Ran(op) == \E k \in 1..Len(ops) : ops[k] = op

LastUpdate == ops[Len(ops)]

OtherUpdate(sensor) == IF sensor = "RADAR" THEN "UpdateLidar" ELSE "UpdateRadar"

RECURSIVE SumUpTo(_, _)
SumUpTo(w, k) == IF k = 0 THEN w[0] ELSE RatAdd(SumUpTo(w, k - 1), w[k])

\* C1: the first call, and only the first, is the bootstrap: it enters
\* neither Prediction nor an update and sets is_initialized_, every later
\* call is not a bootstrap, and is_initialized_ is never cleared.
C1_BootstrapOnlyFirst ==
    /\ [](/\ calls = 0 => ~is_initialized_
          /\ calls = 1 => ops = <<"Bootstrap">> /\ is_initialized_
          /\ calls >= 2 => ~Ran("Bootstrap") /\ is_initialized_)
    /\ [][is_initialized_ => is_initialized_']_vars

C1_Witness == calls >= 2 /\ is_initialized_ /\ Ran("Prediction")

\* C2: every call after the bootstrap enters Prediction once and then exactly
\* one of UpdateLidar and UpdateRadar, in this order.
C2_PredictThenOneUpdate ==
    calls >= 2 => ops \in {<<"Prediction", "UpdateLidar">>, <<"Prediction", "UpdateRadar">>}

C2_Witness == calls >= 3 /\ ops = <<"Prediction", "UpdateRadar">>

\* C3: after the bootstrap UpdateLidar runs only on LASER measurements (two
\* raw values) and UpdateRadar only on RADAR measurements (three raw values).
C3_UpdateMatchesSensor ==
    calls >= 2 =>
        /\ Ran("UpdateLidar") => meas.sensor_type_ = "LASER" /\ Len(meas.raw_measurements_) = 2
        /\ Ran("UpdateRadar") => meas.sensor_type_ = "RADAR" /\ Len(meas.raw_measurements_) = 3

\* C4: Prediction is never entered with a negative delta_t, whatever the
\* timestamps.
C4_NoNegativeDeltaT ==
    Ran("Prediction") => delta_t[1] >= 0

\* C5: the bootstrap call leaves P_ at the constructor prior, and a LASER
\* bootstrap (px, py) leaves x_ = [px, py, 0, 0, 0].
C5_BootstrapExact ==
    calls = 1 =>
        /\ P_ = P_prior
        /\ meas.sensor_type_ = "LASER" =>
              x_ = <<meas.raw_measurements_[1], meas.raw_measurements_[2], 0, 0, 0>>

C5_Witness ==
    calls = 1 /\ meas.sensor_type_ = "LASER" /\ x_ = <<50000, 30000, 0, 0, 0>>

\* C6: after every Prediction the 2*n_aug+1 weights sum to exactly 1, the
\* first being lambda/(lambda+n_aug) and the others 1/(2*(lambda+n_aug)),
\* with lambda = 3 - n_aug, for every n_aug.
C6_WeightsSumToOne ==
    Ran("Prediction") =>
        /\ lambda_ = 3 - n_aug_
        /\ DOMAIN weights_ = 0..(2 * n_aug_)
        /\ weights_[0] = Frac(lambda_, lambda_ + n_aug_)
        /\ \A i \in 1..(2 * n_aug_) : weights_[i] = Frac(1, 2 * (lambda_ + n_aug_))
        /\ SumUpTo(weights_, 2 * n_aug_) = <<1, 1>>

C6_Witness == Ran("Prediction") /\ n_aug_ # AugSize /\ weights_[0] # <<1, 1>>

\* C7: in UpdateRadar the squared range of every sigma point is positive, and
\* a point predicted with px and py both within 1e-3 of zero has the squared
\* range 0.01^2 + 0.01^2.
C7_RangePositive ==
    Ran("UpdateRadar") =>
        \A i \in DOMAIN Zsig_rho2 :
            /\ Zsig_rho2[i] > 0
            /\ NearZero(Xsig_predicted[i]) =>
                  Zsig_rho2[i] = ClampValue * ClampValue + ClampValue * ClampValue

C7_Witness ==
    /\ Ran("UpdateRadar")
    /\ \E i \in DOMAIN Zsig_rho2 : Xsig_predicted[i] = <<0, 0>> /\ Zsig_rho2[i] = 20000
    /\ \E i \in DOMAIN Zsig_rho2 : ~NearZero(Xsig_predicted[i])

\* C8: after every call time_us_ is the timestamp of the measurement just
\* processed; after the bootstrap, delta_t is this timestamp minus the
\* previous one over 1,000,000, hence >= 0 when timestamps do not decrease.
C8_ClockFollowsMeasurement ==
    calls >= 1 =>
        /\ time_us_ = meas.timestamp_
        /\ calls >= 2 =>
              /\ delta_t = Frac(meas.timestamp_ - prev_timestamp, MicrosPerSecond)
              /\ meas.timestamp_ >= prev_timestamp => delta_t[1] >= 0

C8_Witness ==
    calls >= 2 /\ meas.timestamp_ > prev_timestamp /\ delta_t = <<1, 1000000>>

C10_OnlyPredictionWritesSigma ==
    Ran("Prediction") =>
        /\ Xsig_pred_ = Xsig_predicted
        /\ weights_ = weights_predicted
        /\ Ran("UpdateRadar") => xdiff_pts = Xsig_predicted

====
